---- MODULE Spec2Model ----
(***************************************************************************)
(* Model of the AI pipeline of the todo backend: the fixed-window rate     *)
(* limiter in front of POST /todos/analyze and POST /todos/breakdown, the  *)
(* two controllers, and the two services that call the completion          *)
(* provider and validate what it returns.                                  *)
(***************************************************************************)
EXTENDS Integers, Sequences, FiniteSets, TLC

VARIABLES
    now,             \* Date.now(), in milliseconds
    rateLimitStore,  \* rateLimiter.ts: Map<clientId, RateLimitEntry>
    admitted,        \* history: per client and route, requests passed to next() since the entry was created
    lastRes,         \* what the limiter did with the latest request
    unswept,         \* history: the store as it would be had the sweep never fired
    unsweptRes,      \* history: what the limiter would have done with the latest request then
    envKey,          \* process.env.OPENROUTER_API_KEY ("" when absent)
    loadedKey,       \* aiService.ts: the module constant OPENROUTER_API_KEY
    pc,              \* where the request in progress stands: idle, fetch, text, body, done
    call,            \* the request in progress: how it came in, its route, its input,
                     \* what its service was called with and what it put into the prompt
    fetchCalls,      \* calls of fetch() made for the request in progress
    timer,           \* the abort timer of the request in progress
    elapsed,         \* milliseconds since that timer was set
    statusLine,      \* the status line fetch() resolved with
    received,        \* what response.json() resolved to
    outcome,         \* how the service settled: the value returned or the error thrown
    http,            \* what the controller did: the response written, or the error given to next()
    suggestions,     \* useTaskBreakdown.ts: the state `suggestions`
    selectedTasks,   \* the state `selectedTasks`, a Set of 0-based indices
    editedTasks,     \* the state `editedTasks`, a Map from 0-based index to task
    isLoading,       \* the state `isLoading`
    error_,          \* the state `error`: null or a message
    reasoning,       \* the state `reasoning`: undefined or a string
    generating,      \* generateBreakdown calls waiting for their response
    adding,          \* addSelectedTasks calls waiting for Promise.all
    op,              \* history: the hook function that ran in the latest step and its index
    created,         \* history: the createTodo calls the latest step made, by selected index
    notified         \* history: the onTasksAdded calls the latest step made

limiterVars == <<now, rateLimitStore, admitted, lastRes, unswept, unsweptRes>>

pipelineVars == <<envKey, loadedKey, pc, call, fetchCalls, timer, elapsed, statusLine,
                  received, outcome, http>>

hookVars == <<suggestions, selectedTasks, editedTasks, isLoading, error_, reasoning,
              generating, adding, op, created, notified>>

vars == <<now, rateLimitStore, admitted, lastRes, unswept, unsweptRes,
          envKey, loadedKey, pc, call, fetchCalls, timer, elapsed, statusLine,
          received, outcome, http,
          suggestions, selectedTasks, editedTasks, isLoading, error_, reasoning,
          generating, adding, op, created, notified>>

----------------------------------------------------------------------------
(* Bounds of the model *)

MaxWindows == 1      \* clock readings span MaxWindows + 1 windows
MaxCount == 21       \* requests the first identity gets counted in one entry
MaxOther == 1        \* requests the second identity gets counted in one entry
MaxPad == 1          \* white space put on each side of a goal
MaxTasksLen == 3     \* entries in the provider's suggestedTasks array
MaxSuggestions == 2  \* tasks in a breakdown response given to the hook
MaxPending == 1      \* calls of one asynchronous hook function in flight together

----------------------------------------------------------------------------
(* rateLimiter.ts *)

windowMs == 60 * 1000

analysisMaxRequests == 20

breakdownMaxRequests == 10

Clients == {"ip1", "ip2"}

Routes == {"analyze", "breakdown"}

\* routes/todos.ts: the limiter instance mounted on each route
maxRequests(route) == IF route = "analyze" THEN analysisMaxRequests ELSE breakdownMaxRequests

\* clock readings the model draws Date.now() from: the start, then each window
\* boundary and one millisecond past it
Offsets == {0, 1}

Times == {0} \cup {w * windowMs + d : w \in 1..MaxWindows, d \in Offsets}

NoEntry == [count |-> 0, resetTime |-> -1]

\* Math.ceil(ms / 1000) for ms >= 0
CeilSeconds(ms) == (ms + 999) \div 1000

\* the window closed at its reset time already
WindowExpiredAtReset(entry, t) == entry = NoEntry \/ t >= entry.resetTime

\* `!entry || now > entry.resetTime`
WindowExpired(entry, t) == entry = NoEntry \/ t > entry.resetTime

\* the comparison one request late
LimitExceededLate(count, max) == count > max + 1

\* `entry.count > maxRequests`, evaluated after the increment
LimitExceeded(count, max) == count > max

RetryAfter(entry, t) == CeilSeconds(entry.resetTime - t)

\* the entry the middleware works on: the stored one, or a fresh one
CurrentEntry(c, t) ==
    IF WindowExpired(rateLimitStore[c], t)
    THEN [count |-> 0, resetTime |-> t + windowMs]
    ELSE rateLimitStore[c]

\* the entry the middleware would work on had the sweep never fired
UnsweptEntry(c, t) ==
    IF WindowExpired(unswept[c], t)
    THEN [count |-> 0, resetTime |-> t + windowMs]
    ELSE unswept[c]

\* how many requests the model lets an identity send into one entry
MaxCountOf(c) == IF c = "ip1" THEN MaxCount ELSE MaxOther

\* the middleware returned by createRateLimiter, for one request
\* the middleware's effect on the store and its answer
Limit(c, route) ==
    LET fresh == WindowExpired(rateLimitStore[c], now)
        entry == [CurrentEntry(c, now) EXCEPT !.count = @ + 1]
        exceeded == LimitExceeded(entry.count, maxRequests(route))
    IN  /\ entry.count <= MaxCountOf(c)
        /\ rateLimitStore' = [rateLimitStore EXCEPT ![c] = entry]
        /\ admitted' = [admitted EXCEPT ![c] =
                [r \in Routes |->
                    (IF fresh THEN 0 ELSE admitted[c][r])
                    + (IF r = route /\ ~exceeded THEN 1 ELSE 0)]]
        /\ lastRes' = [client |-> c, route |-> route,
                       status |-> IF exceeded THEN 429 ELSE 0,
                       retryAfter |-> IF exceeded THEN RetryAfter(entry, now) ELSE -1,
                       next |-> ~exceeded,
                       seen |-> entry.count - 1]
        /\ LET entryU == [UnsweptEntry(c, now) EXCEPT !.count = @ + 1]
               exceededU == LimitExceeded(entryU.count, maxRequests(route))
           IN  /\ unswept' = [unswept EXCEPT ![c] = entryU]
               /\ unsweptRes' = [client |-> c, route |-> route,
                                 status |-> IF exceededU THEN 429 ELSE 0,
                                 retryAfter |-> IF exceededU THEN RetryAfter(entryU, now) ELSE -1,
                                 next |-> ~exceededU,
                                 seen |-> entryU.count - 1]

\* the middleware alone, whatever handler follows it
RateLimit(c, route) ==
    /\ Limit(c, route)
    /\ UNCHANGED now
    /\ UNCHANGED pipelineVars
    /\ UNCHANGED hookVars

Request == \E c \in Clients, route \in Routes : RateLimit(c, route)

\* a sweep that takes an entry at its reset time already
SweepAtReset ==
    /\ \E c \in Clients : rateLimitStore[c] # NoEntry /\ now >= rateLimitStore[c].resetTime
    /\ rateLimitStore' = [c \in Clients |->
            IF rateLimitStore[c] # NoEntry /\ now >= rateLimitStore[c].resetTime
            THEN NoEntry ELSE rateLimitStore[c]]
    /\ UNCHANGED <<now, admitted, lastRes, unswept, unsweptRes>>
    /\ UNCHANGED pipelineVars
    /\ UNCHANGED hookVars

\* the setInterval callback
Sweep ==
    /\ \E c \in Clients : rateLimitStore[c] # NoEntry /\ now > rateLimitStore[c].resetTime
    /\ rateLimitStore' = [c \in Clients |->
            IF rateLimitStore[c] # NoEntry /\ now > rateLimitStore[c].resetTime
            THEN NoEntry ELSE rateLimitStore[c]]
    /\ UNCHANGED <<now, admitted, lastRes, unswept, unsweptRes>>
    /\ UNCHANGED pipelineVars
    /\ UNCHANGED hookVars

\* the clock advances
Tick ==
    /\ \E t \in Times : t > now /\ now' = t
    /\ UNCHANGED <<rateLimitStore, admitted, lastRes, unswept, unsweptRes>>
    /\ UNCHANGED pipelineVars
    /\ UNCHANGED hookVars

NoRes == [client |-> "", route |-> "", status |-> 0, retryAfter |-> -1, next |-> FALSE, seen |-> 0]

----------------------------------------------------------------------------
(* JavaScript values, as JSON.parse and the request body parser produce them *)

Undefined == [t |-> "undefined"]

JNull == [t |-> "null"]

JBool(b) == [t |-> "boolean", b |-> b]

JNum(n) == [t |-> "number", n |-> n]

JStr(s) == [t |-> "string", s |-> s]

\* a string given as the sequence of its lexemes: the completion text
JText(toks) == [t |-> "string", x |-> toks]

IsText(x) == x.t = "string" /\ "x" \in DOMAIN x

JArr(elems) == [t |-> "array", a |-> elems]

\* an object is the sequence of its <<key, value>> members, in source order
JObj(members) == [t |-> "object", o |-> members]

\* ToBoolean
Truthy(x) ==
    CASE x.t = "undefined" -> FALSE
      [] x.t = "null" -> FALSE
      [] x.t = "boolean" -> x.b
      [] x.t = "number" -> x.n # 0
      [] x.t = "string" -> IF IsText(x) THEN x.x # <<>> ELSE x.s # ""
      [] OTHER -> TRUE

\* typeof
TypeOf(x) ==
    CASE x.t = "undefined" -> "undefined"
      [] x.t = "boolean" -> "boolean"
      [] x.t = "number" -> "number"
      [] x.t = "string" -> "string"
      [] OTHER -> "object"

\* Array.isArray
IsArray(x) == x.t = "array"

\* x[key]: the last member with that key wins; anything else has no such property
Get(x, key) ==
    IF x.t # "object" THEN Undefined
    ELSE LET idx == {i \in 1..Len(x.o) : x.o[i][1] = key}
         IN  IF idx = {} THEN Undefined
             ELSE x.o[CHOOSE i \in idx : \A j \in idx : j <= i][2]

IsWhiteSpace(ch) == ch \in {" ", "\t", "\n", "\r"}

RECURSIVE SkipForward(_, _), SkipBackward(_, _)

\* the first position from i on that holds no white space (Len(s) + 1 if none)
SkipForward(s, i) ==
    IF i <= Len(s) /\ IsWhiteSpace(SubSeq(s, i, i)) THEN SkipForward(s, i + 1) ELSE i

\* the last position up to i that holds no white space (0 if none)
SkipBackward(s, i) ==
    IF i >= 1 /\ IsWhiteSpace(SubSeq(s, i, i)) THEN SkipBackward(s, i - 1) ELSE i

\* String.prototype.trim
Trim(s) ==
    LET first == SkipForward(s, 1)
    IN  IF first > Len(s) THEN "" ELSE SubSeq(s, first, SkipBackward(s, Len(s)))

\* String.prototype.slice(0, n)
Slice0(s, n) == IF Len(s) <= n THEN s ELSE SubSeq(s, 1, n)

\* a match at the start of the string only
IncludesAtStart(s, needle) == Len(s) >= Len(needle) /\ SubSeq(s, 1, Len(needle)) = needle

\* String.prototype.includes
Includes(s, needle) ==
    \E i \in 1..(Len(s) - Len(needle) + 1) : SubSeq(s, i, i + Len(needle) - 1) = needle

----------------------------------------------------------------------------
(* The completion text, as a sequence of lexemes, and JSON.parse over it *)

Punct(p) == [k |-> "punct", p |-> p]

Word(w) == [k |-> "word", w |-> w]

StrTok(s) == [k |-> "str", s |-> s]

NumTok(n) == [k |-> "num", n |-> n]

IsPunct(tok, p) == tok.k = "punct" /\ tok.p = p

IsWord(tok, w) == tok.k = "word" /\ tok.w = w

RECURSIVE Stringify(_), StringifyElems(_), StringifyMembers(_)

\* JSON.stringify
Stringify(x) ==
    CASE x.t = "null" -> <<Word("null")>>
      [] x.t = "boolean" -> <<Word(IF x.b THEN "true" ELSE "false")>>
      [] x.t = "number" -> <<NumTok(x.n)>>
      [] x.t = "string" -> <<StrTok(x.s)>>
      [] x.t = "array" -> <<Punct("[")>> \o StringifyElems(x.a) \o <<Punct("]")>>
      [] x.t = "object" -> <<Punct("{")>> \o StringifyMembers(x.o) \o <<Punct("}")>>

StringifyElems(elems) ==
    IF elems = <<>> THEN <<>>
    ELSE Stringify(Head(elems))
         \o (IF Len(elems) > 1 THEN <<Punct(",")>> ELSE <<>>)
         \o StringifyElems(Tail(elems))

StringifyMembers(members) ==
    IF members = <<>> THEN <<>>
    ELSE <<StrTok(Head(members)[1]), Punct(":")>> \o Stringify(Head(members)[2])
         \o (IF Len(members) > 1 THEN <<Punct(",")>> ELSE <<>>)
         \o StringifyMembers(Tail(members))

ParseFail == [ok |-> FALSE, val |-> Undefined, next |-> 0]

ParseOk(x, i) == [ok |-> TRUE, val |-> x, next |-> i]

RECURSIVE ParseValue(_, _), ParseElems(_, _, _), ParseMembers(_, _, _)

\* one JSON value starting at lexeme i
ParseValue(toks, i) ==
    IF i > Len(toks) THEN ParseFail
    ELSE LET tok == toks[i] IN
         CASE tok.k = "str" -> ParseOk(JStr(tok.s), i + 1)
           [] tok.k = "num" -> ParseOk(JNum(tok.n), i + 1)
           [] IsWord(tok, "null") -> ParseOk(JNull, i + 1)
           [] IsWord(tok, "true") -> ParseOk(JBool(TRUE), i + 1)
           [] IsWord(tok, "false") -> ParseOk(JBool(FALSE), i + 1)
           [] IsPunct(tok, "[") ->
                IF i + 1 <= Len(toks) /\ IsPunct(toks[i + 1], "]")
                THEN ParseOk(JArr(<<>>), i + 2)
                ELSE ParseElems(toks, i + 1, <<>>)
           [] IsPunct(tok, "{") ->
                IF i + 1 <= Len(toks) /\ IsPunct(toks[i + 1], "}")
                THEN ParseOk(JObj(<<>>), i + 2)
                ELSE ParseMembers(toks, i + 1, <<>>)
           [] OTHER -> ParseFail

\* the elements of an array, the first of them starting at lexeme i
ParseElems(toks, i, acc) ==
    LET r == ParseValue(toks, i) IN
    IF ~r.ok \/ r.next > Len(toks) THEN ParseFail
    ELSE IF IsPunct(toks[r.next], "]") THEN ParseOk(JArr(Append(acc, r.val)), r.next + 1)
    ELSE IF IsPunct(toks[r.next], ",") THEN ParseElems(toks, r.next + 1, Append(acc, r.val))
    ELSE ParseFail

\* the members of an object, the first of them starting at lexeme i
ParseMembers(toks, i, acc) ==
    IF i + 1 > Len(toks) \/ toks[i].k # "str" \/ ~IsPunct(toks[i + 1], ":") THEN ParseFail
    ELSE LET r == ParseValue(toks, i + 2) IN
         IF ~r.ok \/ r.next > Len(toks) THEN ParseFail
         ELSE IF IsPunct(toks[r.next], "}")
              THEN ParseOk(JObj(Append(acc, <<toks[i].s, r.val>>)), r.next + 1)
         ELSE IF IsPunct(toks[r.next], ",")
              THEN ParseMembers(toks, r.next + 1, Append(acc, <<toks[i].s, r.val>>))
         ELSE ParseFail

\* JSON.parse: the value, or a SyntaxError
JSONParse(toks) ==
    LET r == ParseValue(toks, 1)
    IN  IF r.ok /\ r.next = Len(toks) + 1 THEN [ok |-> TRUE, val |-> r.val]
        ELSE [ok |-> FALSE, val |-> Undefined]

\* the match of the lazy pattern: from the first "{" to the first "}" after it
MatchBracesLazy(toks) ==
    LET opens == {i \in 1..Len(toks) : IsPunct(toks[i], "{")}
        first == CHOOSE i \in opens : \A j \in opens : i <= j
        closes == {i \in 1..Len(toks) : IsPunct(toks[i], "}") /\ i > first}
    IN  IF opens = {} \/ closes = {} THEN [found |-> FALSE, text |-> <<>>]
        ELSE [found |-> TRUE,
              text |-> SubSeq(toks, first, CHOOSE i \in closes : \A j \in closes : i <= j)]

\* aiResponse.match(/\{[\s\S]*\}/): from the first "{" to the last "}", or null
MatchBraces(toks) ==
    LET opens == {i \in 1..Len(toks) : IsPunct(toks[i], "{")}
        first == CHOOSE i \in opens : \A j \in opens : i <= j
        closes == {i \in 1..Len(toks) : IsPunct(toks[i], "}") /\ i > first}
    IN  IF opens = {} \/ closes = {} THEN [found |-> FALSE, text |-> <<>>]
        ELSE [found |-> TRUE,
              text |-> SubSeq(toks, first, CHOOSE i \in closes : \A j \in closes : j <= i)]

----------------------------------------------------------------------------
(* taskBreakdownService.ts *)

\* `setTimeout(() => controller.abort(), 15000)`
breakdownTimeoutMs == 15000

MaxGoalLength == 500

MinGoalLength == 5

Error(msg) == [name |-> "Error", message |-> msg]

NoError == [name |-> "", message |-> ""]

Return(x) == [kind |-> "return", value |-> x, error |-> NoError]

Throw(e) == [kind |-> "throw", value |-> Undefined, error |-> e]

\* the cut without the trim
sanitizeInputUntrimmed(input) == Slice0(input, MaxGoalLength)

sanitizeInput(input) == Slice0(Trim(input), MaxGoalLength)

\* the length check one character off
GoalTooShortOffByOne(sanitized) == Len(sanitized) < MinGoalLength - 1

GoalTooShort(sanitized) == Len(sanitized) < MinGoalLength

GoalTooLong(sanitized) == Len(sanitized) > MaxGoalLength

validateGoal(goal) ==
    LET sanitized == Trim(goal) IN
    IF sanitized = "" THEN [valid |-> FALSE, error |-> "Goal cannot be empty"]
    ELSE IF GoalTooShort(sanitized)
        THEN [valid |-> FALSE, error |-> "Please provide a more specific goal (at least 5 characters)"]
    ELSE IF GoalTooLong(sanitized)
        THEN [valid |-> FALSE, error |-> "Goal is too long (maximum 500 characters)"]
    ELSE [valid |-> TRUE, error |-> ""]

Priorities == {"low", "medium", "high"}

\* any truthy priority kept
PriorityKeptUnchecked(p) == Truthy(p)

\* `taskObj.estimatedPriority && (... === 'low' || ... === 'medium' || ... === 'high')`
PriorityKept(p) == Truthy(p) /\ p.t = "string" /\ p.s \in Priorities

\* the title tested without trim
TitleKeptUntrimmed(title) == TypeOf(title) = "string" /\ title.s # ""

\* `typeof taskObj.title !== 'string' || !taskObj.title.trim()` is false
TitleKept(title) == TypeOf(title) = "string" /\ Trim(title.s) # ""

\* the loop body's two `continue` guards are both false
TaskKept(task) == Truthy(task) /\ TypeOf(task) = "object" /\ TitleKept(Get(task, "title"))

\* the SuggestedTask the loop body builds from a kept entry
BuildTask(task) ==
    LET description == Get(task, "description")
        priority == Get(task, "estimatedPriority")
    IN  JObj(<<<<"title", JStr(Trim(Get(task, "title").s))>>>>
             \o (IF Truthy(description) /\ TypeOf(description) = "string"
                 THEN <<<<"description", JStr(Trim(description.s))>>>> ELSE <<>>)
             \o (IF PriorityKept(priority)
                 THEN <<<<"estimatedPriority", priority>>>> ELSE <<>>))

RECURSIVE CollectTasks(_)

\* the for-of loop over data.suggestedTasks
CollectTasks(tasks) ==
    IF tasks = <<>> THEN <<>>
    ELSE (IF TaskKept(Head(tasks)) THEN <<BuildTask(Head(tasks))>> ELSE <<>>)
         \o CollectTasks(Tail(tasks))

\* the empty list let through
NoTasksNever(suggestedTasks) == Len(suggestedTasks) < 0

\* `suggestedTasks.length === 0`
NoTasks(suggestedTasks) == Len(suggestedTasks) = 0

Invalid == [valid |-> FALSE, data |-> Undefined]

validateLLMResponse(response) ==
    IF ~Truthy(response) \/ TypeOf(response) # "object" THEN Invalid
    ELSE IF ~IsArray(Get(response, "suggestedTasks")) THEN Invalid
    ELSE LET suggestedTasks == CollectTasks(Get(response, "suggestedTasks").a) IN
         IF NoTasks(suggestedTasks) THEN Invalid
         ELSE [valid |-> TRUE,
               data |-> JObj(<<<<"suggestedTasks", JArr(suggestedTasks)>>>>
                             \o (IF TypeOf(Get(response, "reasoning")) = "string"
                                 THEN <<<<"reasoning", Get(response, "reasoning")>>>>
                                 ELSE <<>>))]

\* x[0]
First(x) == IF IsArray(x) /\ Len(x.a) > 0 THEN x.a[1] ELSE Undefined

\* the envelope checks both services make on `data`: the completion, or the error thrown
Unwrap(data) ==
    IF data.t \in {"null", "undefined"}
    THEN Throw([name |-> "TypeError",
                message |-> "Cannot read properties of null (reading 'choices')"])
    ELSE LET choices == Get(data, "choices")
             firstChoice == First(choices)
         IN  IF ~Truthy(choices) \/ (IsArray(choices) /\ Len(choices.a) = 0)
             THEN Throw(Error("No response from AI model"))
             ELSE IF ~Truthy(firstChoice) \/ ~Truthy(Get(firstChoice, "message"))
                     \/ ~Truthy(Get(Get(firstChoice, "message"), "content"))
             THEN Throw(Error("No response from AI model"))
             ELSE Return(Get(Get(firstChoice, "message"), "content"))

\* `parseInt(process.env.TASK_BREAKDOWN_MAX_TASKS || "8", 10)`, the variable not set
TASK_BREAKDOWN_MAX_TASKS == 8

\* `Math.min(request.maxTasks || TASK_BREAKDOWN_MAX_TASKS, TASK_BREAKDOWN_MAX_TASKS)`,
\* the number the system prompt asks the provider to stay under
EffectiveMaxTasks(requested) ==
    LET wanted == IF Truthy(requested) THEN requested.n ELSE TASK_BREAKDOWN_MAX_TASKS
    IN  IF wanted < TASK_BREAKDOWN_MAX_TASKS THEN wanted ELSE TASK_BREAKDOWN_MAX_TASKS

\* the context trimmed but not cut
SanitizedContextUncut(context) ==
    IF Truthy(context) THEN JStr(Trim(context.s)) ELSE Undefined

\* `request.context ? sanitizeInput(request.context) : undefined`, the context the
\* user prompt gets
SanitizedContext(context) ==
    IF Truthy(context) THEN JStr(sanitizeInput(context.s)) ELSE Undefined

\* the line of the user prompt after the goal:
\* `${sanitizedContext ? `Additional context: "${sanitizedContext}"` : ''}`
ContextLine(sanitizedContext) ==
    IF Truthy(sanitizedContext) THEN "Additional context: \"" \o sanitizedContext.s \o "\""
    ELSE ""

\* the catch block of generateTaskBreakdown
BreakdownCatch(error) ==
    IF error.name = "AbortError"
    THEN Throw(Error("Task breakdown request timed out. Please try again with a simpler goal."))
    ELSE IF Includes(error.message, "API error") THEN Throw(error)
    ELSE IF \/ Includes(error.message, "Goal") \/ Includes(error.message, "format")
            \/ Includes(error.message, "valid") \/ Includes(error.message, "configured")
            \/ Includes(error.message, "No response")
    THEN Throw(error)
    ELSE Throw(Error("Failed to generate task breakdown. Please try again later."))

\* generateTaskBreakdown up to the fetch: the error thrown, or the sanitized goal
BreakdownBefore(key, request) ==
    IF key = "" THEN Throw(Error("OPENROUTER_API_KEY is not configured"))
    ELSE IF ~validateGoal(request.goal).valid THEN Throw(Error(validateGoal(request.goal).error))
    ELSE Return(JStr(sanitizeInput(request.goal)))

\* the try block of generateTaskBreakdown after `await response.json()`;
\* syntaxMessage is the message of the SyntaxError JSON.parse throws
BreakdownTry(data, sanitizedGoal, syntaxMessage) ==
    LET content == Unwrap(data)
        jsonMatch == MatchBraces(content.value.x)
        parsedResponse == JSONParse(jsonMatch.text)
        validationResult == validateLLMResponse(parsedResponse.val)
    IN  IF content.kind = "throw" THEN content
        ELSE IF ~jsonMatch.found
            THEN Throw(Error("AI response was not in expected JSON format"))
        ELSE IF ~parsedResponse.ok
            THEN Throw([name |-> "SyntaxError", message |-> syntaxMessage])
        ELSE IF ~validationResult.valid \/ ~Truthy(validationResult.data)
            THEN Throw(Error("AI response did not contain valid suggested tasks"))
        ELSE Return(JObj(<<<<"goal", sanitizedGoal>>,
                           <<"suggestedTasks", Get(validationResult.data, "suggestedTasks")>>>>
                         \o (IF Truthy(Get(validationResult.data, "reasoning"))
                             THEN <<<<"reasoning", Get(validationResult.data, "reasoning")>>>>
                             ELSE <<>>)))

BreakdownAfter(data, sanitizedGoal, syntaxMessage) ==
    LET r == BreakdownTry(data, sanitizedGoal, syntaxMessage)
    IN  IF r.kind = "throw" THEN BreakdownCatch(r.error) ELSE r

\* `OpenRouter API error: ${response.status} ${response.statusText}`
ApiError(response) == Error("OpenRouter API error: " \o response.status \o " " \o response.statusText)

----------------------------------------------------------------------------
(* aiService.ts *)

\* `setTimeout(() => controller.abort(), 10000)`
analysisTimeoutMs == 10000

EmptySummary == "You have no todos yet. Start by adding your first task!"

SummaryPlaceholder == "Analysis completed"

\* the canned result for an empty list
EmptyAnalysis ==
    JObj(<<<<"summary", JStr(EmptySummary)>>,
           <<"insights", JArr(<<JStr("Your todo list is empty"),
                                JStr("Consider adding tasks to track your work")>>)>>,
           <<"prioritySuggestions", JArr(<<>>)>>>>)

\* `parsedResponse.summary || "Analysis completed"`
SummaryOf(parsedResponse) ==
    IF Truthy(Get(parsedResponse, "summary")) THEN Get(parsedResponse, "summary")
    ELSE JStr(SummaryPlaceholder)

\* `Array.isArray(parsedResponse.insights) ? parsedResponse.insights : []`
InsightsOf(parsedResponse) ==
    IF IsArray(Get(parsedResponse, "insights")) THEN Get(parsedResponse, "insights")
    ELSE JArr(<<>>)

\* analyzeTodosWithAI up to the fetch: the error thrown, the canned result, or Undefined to go on
AnalysisBefore(key, todos) ==
    IF key = "" THEN Throw(Error("OPENROUTER_API_KEY is not configured"))
    ELSE IF Len(todos) = 0 THEN Return(EmptyAnalysis)
    ELSE Return(Undefined)

\* the catch block of analyzeTodosWithAI
AnalysisCatch(error) ==
    IF error.name = "AbortError"
    THEN Throw(Error("AI analysis request timed out. Please try again."))
    ELSE IF Includes(error.message, "API error") THEN Throw(error)
    ELSE Throw(Error("Failed to analyze todos with AI. Please try again later."))

\* the try block of analyzeTodosWithAI after `await response.json()`
AnalysisTry(data, syntaxMessage) ==
    LET content == Unwrap(data)
        jsonMatch == MatchBraces(content.value.x)
        parsedResponse == JSONParse(jsonMatch.text)
    IN  IF content.kind = "throw" THEN content
        ELSE IF ~jsonMatch.found
            THEN Throw(Error("AI response was not in expected JSON format"))
        ELSE IF ~parsedResponse.ok
            THEN Throw([name |-> "SyntaxError", message |-> syntaxMessage])
        ELSE Return(JObj(<<<<"summary", SummaryOf(parsedResponse.val)>>,
                           <<"insights", InsightsOf(parsedResponse.val)>>>>
                         \o (IF IsArray(Get(parsedResponse.val, "prioritySuggestions"))
                             THEN <<<<"prioritySuggestions",
                                      Get(parsedResponse.val, "prioritySuggestions")>>>>
                             ELSE <<>>)))

AnalysisAfter(data, syntaxMessage) ==
    LET r == AnalysisTry(data, syntaxMessage)
    IN  IF r.kind = "throw" THEN AnalysisCatch(r.error) ELSE r

----------------------------------------------------------------------------
(* The controllers *)

Json(status, body) == [sent |-> TRUE, status |-> status, body |-> body, next |-> NoError]

Next_(error) == [sent |-> FALSE, status |-> 0, body |-> Undefined, next |-> error]

NoResponse == [sent |-> FALSE, status |-> 0, body |-> Undefined, next |-> NoError]

ErrorBody(msg) == JObj(<<<<"error", JStr(msg)>>>>)

DetailedBody(msg, details) == JObj(<<<<"error", JStr(msg)>>, <<"details", JStr(details)>>>>)

\* the validation with a wider range for maxTasks
BreakdownCheckWide(body) ==
    LET goal == Get(body, "goal")
        context == Get(body, "context")
        maxTasks == Get(body, "maxTasks")
    IN  IF ~Truthy(goal) THEN Json(400, ErrorBody("Goal is required"))
        ELSE IF TypeOf(goal) # "string" THEN Json(400, ErrorBody("Goal must be a string"))
        ELSE IF context.t # "undefined" /\ TypeOf(context) # "string"
            THEN Json(400, ErrorBody("Context must be a string"))
        ELSE IF maxTasks.t # "undefined"
                /\ (TypeOf(maxTasks) # "number" \/ maxTasks.n < 0 \/ maxTasks.n > 25)
            THEN Json(400, ErrorBody("maxTasks must be a number between 1 and 20"))
        ELSE NoResponse

\* the validation at the top of breakdownTask: the 400 response, or NoResponse to go on
BreakdownCheck(body) ==
    LET goal == Get(body, "goal")
        context == Get(body, "context")
        maxTasks == Get(body, "maxTasks")
    IN  IF ~Truthy(goal) THEN Json(400, ErrorBody("Goal is required"))
        ELSE IF TypeOf(goal) # "string" THEN Json(400, ErrorBody("Goal must be a string"))
        ELSE IF context.t # "undefined" /\ TypeOf(context) # "string"
            THEN Json(400, ErrorBody("Context must be a string"))
        ELSE IF maxTasks.t # "undefined"
                /\ (TypeOf(maxTasks) # "number" \/ maxTasks.n < 1 \/ maxTasks.n > 20)
            THEN Json(400, ErrorBody("maxTasks must be a number between 1 and 20"))
        ELSE NoResponse

\* breakdownTask once generateTaskBreakdown has settled
BreakdownRespond(settled) ==
    LET message == settled.error.message IN
    IF settled.kind = "return" THEN Json(200, settled.value)
    ELSE IF Includes(message, "not configured")
        THEN Json(503, DetailedBody("AI service is not configured. Please contact the administrator.", message))
    ELSE IF Includes(message, "timed out")
        THEN Json(504, DetailedBody("Task breakdown timed out. Please try again with a simpler goal.", message))
    ELSE IF Includes(message, "Goal") \/ Includes(message, "specific")
        THEN Json(400, ErrorBody(message))
    ELSE IF Includes(message, "format")
        THEN Json(500, DetailedBody("AI response was not in expected format. Please try again.", message))
    ELSE Next_(settled.error)

\* the validation at the top of analyzeTodos
AnalyzeCheck(body) ==
    LET todos == Get(body, "todos")
    IN  IF ~Truthy(todos) THEN Json(400, ErrorBody("Todos array is required"))
        ELSE IF ~IsArray(todos) THEN Json(400, ErrorBody("Todos must be an array"))
        ELSE NoResponse

\* the filter without the test of the title's type
IsTodoAnyTitle(todo) ==
    todo.t # "null" /\ TypeOf(todo) = "object" /\ todo.t = "object"
    /\ (\E i \in 1..Len(todo.o) : todo.o[i][1] = "title")

\* the filter callback of analyzeTodos
IsTodo(todo) ==
    todo.t # "null" /\ TypeOf(todo) = "object" /\ todo.t = "object"
    /\ (\E i \in 1..Len(todo.o) : todo.o[i][1] = "title")
    /\ TypeOf(Get(todo, "title")) = "string"

\* todos.filter(...)
validatedTodos(todos) == SelectSeq(todos, IsTodo)

\* analyzeTodos once analyzeTodosWithAI has settled
AnalyzeRespond(settled) ==
    LET message == settled.error.message IN
    IF settled.kind = "return" THEN Json(200, settled.value)
    ELSE IF Includes(message, "not configured")
        THEN Json(503, DetailedBody("AI service is not configured. Please contact the administrator.", message))
    ELSE IF Includes(message, "timed out")
        THEN Json(504, DetailedBody("AI analysis timed out. Please try again.", message))
    ELSE Next_(settled.error)

----------------------------------------------------------------------------
(* What callers and the provider send *)

RECURSIVE Repeat(_, _)

\* s repeated n times
Repeat(s, n) ==
    IF n = 0 THEN ""
    ELSE IF n % 2 = 0 THEN LET h == Repeat(s, n \div 2) IN h \o h
    ELSE s \o Repeat(s, n - 1)

GoalLengths == {0, 2, MinGoalLength - 1, MinGoalLength, MaxGoalLength, MaxGoalLength + 1}

Goals == {Repeat(" \t", pad) \o Repeat("g", n) \o Repeat("\n ", pad) :
            pad \in 0..MaxPad, n \in GoalLengths}

\* context strings around the length sanitizeInput cuts at
Contexts ==
    {Repeat(" ", pad) \o Repeat("c", MaxGoalLength - 1) \o mid \o Repeat("d", MaxGoalLength \div 5)
        \o Repeat("\n", pad) : pad \in 0..MaxPad, mid \in {"c", " "}}
    \cup {Repeat("c", MaxGoalLength), Repeat("c", MaxGoalLength + 1)}

\* TaskBreakdownRequest values handed to generateTaskBreakdown
Requests == {[goal |-> g, context |-> Undefined, maxTasks |-> Undefined] : g \in Goals}

\* bodies of POST /todos/breakdown
BreakdownBodies ==
    {JObj(<<<<"goal", JStr(g)>>>>) : g \in Goals}
    \cup {JObj(<<>>), JObj(<<<<"goal", JNum(123)>>>>), JObj(<<<<"goal", JNull>>>>)}
    \cup {JObj(<<<<"goal", g>>, <<"maxTasks", JNum(5)>>>>) :
            g \in {JNum(0), JBool(FALSE), JBool(TRUE), JArr(<<JStr("Plan a trip")>>),
                   JObj(<<<<"text", JStr("Plan a trip")>>>>)}}
    \cup {JObj(<<<<"goal", JStr("Plan a weekend camping trip")>>, <<"context", c>>>>) :
            c \in {JStr("with two kids"), JStr(""), JNum(123), JNum(0), JNull, JBool(FALSE),
                   JArr(<<>>)}}
    \cup {JObj(<<<<"goal", JStr("Plan a trip")>>, <<"context", JStr(c)>>>>) : c \in Contexts}
    \cup {JObj(<<<<"goal", JStr("Plan a weekend camping trip")>>, <<"maxTasks", m>>>>) :
            m \in {JNum(0), JNum(-1), JNum(1), JNum(5), JNum(20), JNum(21), JNum(25),
                   JStr("invalid"), JStr("5"), JNull, JBool(TRUE), JArr(<<JNum(5)>>)}}

Todo(title, completed) ==
    JObj(<<<<"id", JStr("1")>>, <<"title", JStr(title)>>, <<"completed", JBool(completed)>>>>)

\* Todo[] values handed to analyzeTodosWithAI
TodoLists == {<<>>, <<Todo("Write tests", FALSE)>>,
              <<Todo("Write tests", FALSE), Todo("Update docs", TRUE)>>}

\* bodies of POST /todos/analyze
AnalyzeBodies ==
    {JObj(<<<<"todos", JArr(l)>>>>) : l \in TodoLists}
    \cup {JObj(<<>>), JObj(<<<<"todos", JStr("not an array")>>>>),
          JObj(<<<<"todos", JNull>>>>), JObj(<<<<"todos", JNum(0)>>>>),
          JObj(<<<<"todos", JNum(3)>>>>), JObj(<<<<"todos", JBool(TRUE)>>>>),
          JObj(<<<<"todos", JObj(<<<<"title", JStr("Write tests")>>>>)>>>>),
          JObj(<<<<"todos", JArr(<<JNum(1), JNull>>)>>>>),
          JObj(<<<<"todos", JArr(<<Todo("Write tests", FALSE), JNull, JStr("Update docs"),
                                   JObj(<<<<"title", JStr("")>>>>), JArr(<<>>),
                                   JObj(<<<<"id", JStr("4")>>>>), JObj(<<<<"title", JNull>>>>),
                                   Todo("Update docs", TRUE)>>)>>>>),
          JObj(<<<<"todos", JArr(<<JObj(<<<<"title", JNum(7)>>>>), Todo("Write tests", FALSE)>>)>>>>)}

\* entries the provider may put in suggestedTasks
TaskEntries ==
    {JObj(<<<<"title", JStr("Book campsite")>>, <<"description", JStr(" Reserve a spot ")>>,
            <<"estimatedPriority", JStr("high")>>>>),
     JObj(<<<<"title", JStr("  Pack gear\n")>>, <<"description", JNum(5)>>,
            <<"estimatedPriority", JStr("HIGH")>>>>),
     JObj(<<<<"title", JStr(" \t")>>, <<"estimatedPriority", JStr("low")>>>>),
     JNull}

\* further entries that are no task
OddEntries ==
    {JObj(<<<<"title", JNum(7)>>, <<"description", JStr("no title")>>>>),
     JObj(<<<<"description", JStr("no title")>>>>),
     JObj(<<<<"title", JStr("")>>>>),
     JStr("Buy food"), JNum(0), JBool(TRUE), JArr(<<JStr("Buy food")>>)}

\* values the provider may give estimatedPriority
PriorityValues ==
    {JStr("low"), JStr("medium"), JStr("high"), JStr("High"), JStr("urgent"), JStr(""),
     JStr(" low"), JNum(1), JNull, JBool(TRUE), JArr(<<JStr("low")>>)}

\* values the provider may give description
DescriptionValues == {JStr("Pick a trail"), JStr("   "), JStr(""), JNum(5), JNull}

TaskArrays ==
    UNION {[1..n -> TaskEntries] : n \in 0..MaxTasksLen}
    \cup {<<JObj(<<<<"title", JStr("Plan route")>>, <<"description", d>>>>)>> :
                d \in DescriptionValues}
    \cup {<<JObj(<<<<"title", JStr("Plan route")>>, <<"estimatedPriority", p>>>>),
            JObj(<<<<"title", JStr("Buy food")>>>>)>> : p \in PriorityValues}
    \cup {<<e>> : e \in OddEntries}
    \cup {<<e, JObj(<<<<"title", JStr("Buy food")>>>>)>> : e \in OddEntries}

\* JSON values of breakdown completions
BreakdownValues ==
    {JObj(<<<<"suggestedTasks", JArr(a)>>>>) : a \in TaskArrays}
    \cup {JObj(<<<<"suggestedTasks", JArr(<<JObj(<<<<"title", JStr("Book campsite")>>>>)>>)>>,
                 <<"reasoning", r>>>>) : r \in {JStr("Ordered by dependency"), JStr(""), JNum(3)}}
    \cup {JObj(<<>>), JObj(<<<<"suggestedTasks", JStr("none")>>>>),
          JObj(<<<<"suggestedTasks", JNull>>>>),
          JObj(<<<<"tasks", JArr(<<JObj(<<<<"title", JStr("Book campsite")>>>>)>>)>>>>)}

SummaryValues ==
    {Undefined, JStr("You have 3 tasks with 2 pending"), JStr(""), JNum(42), JNum(0), JNull,
     JBool(TRUE), JBool(FALSE), JArr(<<>>), JObj(<<>>)}

InsightsValues ==
    {Undefined, JArr(<<JStr("Focus on authentication first")>>), JArr(<<>>), JStr("none"),
     JNull, JObj(<<>>)}

SuggestionValues == {Undefined, JArr(<<JStr("Start with auth")>>), JStr("none")}

Member(key, x) == IF x.t = "undefined" THEN <<>> ELSE <<<<key, x>>>>

\* JSON values of analysis completions
AnalysisValues ==
    {JObj(Member("summary", s) \o Member("insights", i) \o Member("prioritySuggestions", p)) :
        s \in SummaryValues, i \in InsightsValues, p \in SuggestionValues}

Prose == <<Word("Here"), Word("is"), Word("the"), Word("result")>>

\* completions that do not hold one clean JSON object
BrokenCompletions ==
    {<<Word("This"), Word("is"), Word("not"), Word("JSON"), Word("format")>>,
     <<Punct("{"), StrTok("suggestedTasks"), Punct(":"), Punct("[")>>,
     <<Punct("{"), StrTok("summary"), Punct(":"), Word("busy"), Punct("}")>>,
     <<Punct("{"), StrTok("summary"), Punct(":"), StrTok("busy"), Punct("}"),
       Word("see"), Punct("}")>>,
     <<Punct("["), Punct("{"), StrTok("summary"), Punct(":"), StrTok("a"), Punct("}"),
       Punct(","), Punct("{"), StrTok("summary"), Punct(":"), StrTok("b"), Punct("}"),
       Punct("]")>>}

\* the completion texts the provider may send for a route
Completions(route) ==
    LET values == IF route = "analyze" THEN AnalysisValues ELSE BreakdownValues
    IN  {Stringify(x) : x \in values}
        \cup {Prose \o Stringify(x) \o <<Word("Hope"), Word("this"), Word("helps")>> :
                x \in {y \in values : Len(y.o) = 2}}
        \cup BrokenCompletions

Envelope(content) ==
    JObj(<<<<"choices", JArr(<<JObj(<<<<"message", JObj(<<<<"content", content>>>>)>>>>)>>)>>>>)

\* the bodies response.json() may resolve to
Bodies(route) ==
    {Envelope(JText(c)) : c \in Completions(route)}
    \cup {JNull, JObj(<<>>), JObj(<<<<"choices", JArr(<<>>)>>>>), JObj(<<<<"choices", JNum(5)>>>>),
          JObj(<<<<"choices", JArr(<<JNull>>)>>>>), JObj(<<<<"choices", JArr(<<JObj(<<>>)>>)>>>>),
          Envelope(JText(<<>>)), Envelope(JNull),
          JObj(<<<<"choices", JArr(<<JObj(<<<<"message", JObj(<<>>)>>>>)>>)>>>>)}

\* status lines the provider may answer with
Responses ==
    {[ok |-> TRUE, status |-> "200", statusText |-> "OK"],
     [ok |-> FALSE, status |-> "401", statusText |-> "Unauthorized"],
     [ok |-> FALSE, status |-> "429", statusText |-> "Too Many Requests"],
     [ok |-> FALSE, status |-> "500", statusText |-> "Internal Server Error"]}

NoStatus == [ok |-> FALSE, status |-> "", statusText |-> ""]

\* messages JSON.parse gives its SyntaxError, by engine version
SyntaxMessages ==
    {"Unexpected token b in JSON at position 11",
     "Unexpected end of JSON input",
     "Unexpected token 'b', \"{\"summary\":busy}\" is not valid JSON"}

----------------------------------------------------------------------------
(* The request in progress *)

NoCall ==
    [via |-> "", route |-> "", input |-> Undefined,
     goal |-> Undefined, context |-> Undefined, todos |-> Undefined]

NoOutcome == [kind |-> "", value |-> Undefined, error |-> NoError]

Respond(route, o) == IF route = "analyze" THEN AnalyzeRespond(o) ELSE BreakdownRespond(o)

\* the service settles: its caller gets the outcome, and a controller answers
Settle(c, o) ==
    /\ outcome' = o
    /\ http' = IF c.via = "http" THEN Respond(c.route, o) ELSE NoResponse
    /\ pc' = "done"

\* the request sent a second time
StartFetchTwice ==
    /\ fetchCalls' = fetchCalls + 2
    /\ timer' = "armed"
    /\ pc' = "fetch"
    /\ UNCHANGED <<received, outcome, http>>

\* the service reaches `await fetch(...)`
StartFetch ==
    /\ fetchCalls' = fetchCalls + 1
    /\ timer' = "armed"
    /\ pc' = "fetch"
    /\ UNCHANGED <<received, outcome, http>>

\* generateTaskBreakdown(request), from its call to its first await
RunBreakdown(c, request) ==
    LET before == BreakdownBefore(envKey, request) IN
    IF before.kind = "throw"
    THEN /\ call' = c
         /\ Settle(c, before)
         /\ UNCHANGED <<fetchCalls, timer, received>>
    ELSE /\ call' = [c EXCEPT !.goal = before.value,
                              !.context = SanitizedContext(request.context)]
         /\ StartFetch

\* a caller inside the process calls generateTaskBreakdown
CallBreakdown ==
    /\ pc = "idle"
    /\ \E request \in Requests :
        RunBreakdown([via |-> "direct", route |-> "breakdown", input |-> JStr(request.goal),
                      goal |-> Undefined, context |-> Undefined, todos |-> Undefined],
                     request)
    /\ UNCHANGED <<envKey, loadedKey, elapsed, statusLine>>
    /\ UNCHANGED limiterVars
    /\ UNCHANGED hookVars

\* the controller breakdownTask, from its call to its first await
breakdownTask(body) ==
    IF BreakdownCheck(body).sent
    THEN /\ call' = [via |-> "http", route |-> "breakdown", input |-> body,
                     goal |-> Undefined, context |-> Undefined, todos |-> Undefined]
         /\ http' = BreakdownCheck(body)
         /\ pc' = "done"
         /\ UNCHANGED <<fetchCalls, timer, received, outcome>>
    ELSE RunBreakdown([via |-> "http", route |-> "breakdown", input |-> body,
                       goal |-> Undefined, context |-> Undefined, todos |-> Undefined],
                      [goal |-> Get(body, "goal").s, context |-> Get(body, "context"),
                       maxTasks |-> Get(body, "maxTasks")])

\* POST /todos/breakdown, past the limiter: breakdownTask
PostBreakdown ==
    /\ pc = "idle"
    /\ \E body \in BreakdownBodies : breakdownTask(body)
    /\ UNCHANGED <<envKey, loadedKey, elapsed, statusLine>>
    /\ UNCHANGED limiterVars
    /\ UNCHANGED hookVars

\* analyzeTodosWithAI(todos), from its call to its first await
RunAnalysis(c, todos) ==
    LET before == AnalysisBefore(loadedKey, todos) IN
    IF before.kind = "throw" \/ before.value.t # "undefined"
    THEN /\ Settle(c, before)
         /\ UNCHANGED <<fetchCalls, timer, received>>
    ELSE StartFetch

\* a caller inside the process calls analyzeTodosWithAI
CallAnalyze ==
    /\ pc = "idle"
    /\ \E todos \in TodoLists :
        /\ call' = [via |-> "direct", route |-> "analyze", input |-> JArr(todos),
                    goal |-> Undefined, context |-> Undefined, todos |-> JArr(todos)]
        /\ RunAnalysis(call', todos)
    /\ UNCHANGED <<envKey, loadedKey, elapsed, statusLine>>
    /\ UNCHANGED limiterVars
    /\ UNCHANGED hookVars

\* the controller analyzeTodos, from its call to its first await
analyzeTodos(body) ==
    /\ call' = [via |-> "http", route |-> "analyze", input |-> body, goal |-> Undefined,
                context |-> Undefined,
                todos |-> IF AnalyzeCheck(body).sent THEN Undefined
                          ELSE JArr(validatedTodos(Get(body, "todos").a))]
    /\ IF AnalyzeCheck(body).sent
       THEN /\ http' = AnalyzeCheck(body)
            /\ pc' = "done"
            /\ UNCHANGED <<fetchCalls, timer, received, outcome>>
       ELSE RunAnalysis(call', call'.todos.a)

\* POST /todos/analyze, past the limiter: analyzeTodos
PostAnalyze ==
    /\ pc = "idle"
    /\ \E body \in AnalyzeBodies : analyzeTodos(body)
    /\ UNCHANGED <<envKey, loadedKey, elapsed, statusLine>>
    /\ UNCHANGED limiterVars
    /\ UNCHANGED hookVars

\* the body of the limiter's 429 answer
TooManyBody(retryAfter, limit) ==
    JObj(<<<<"error", JStr("Too many requests. Please try again later.")>>,
           <<"retryAfter", JNum(retryAfter)>>,
           <<"limit", JNum(limit)>>,
           <<"window", JStr("60 seconds")>>>>)

\* the bodies posted to a route behind its limiter
RouteBodies(route) ==
    IF route = "breakdown"
    THEN {JObj(<<>>),
          JObj(<<<<"goal", JStr("Go")>>>>),
          JObj(<<<<"goal", JStr("Plan a trip")>>, <<"maxTasks", JNum(11)>>>>),
          JObj(<<<<"goal", JStr("Plan a trip")>>>>)}
    ELSE {JObj(<<>>),
          JObj(<<<<"todos", JStr("all")>>>>),
          JObj(<<<<"todos", JArr(<<>>)>>>>),
          JObj(<<<<"todos", JArr(<<Todo("Buy milk", FALSE)>>)>>>>)}

\* the handler mounted behind the limiter of a route
Handler(route, body) == IF route = "analyze" THEN analyzeTodos(body) ELSE breakdownTask(body)

\* a route whose handler runs without the limiter
RouteUnlimited(route) ==
    /\ pc = "idle"
    /\ \E body \in RouteBodies(route) : Handler(route, body)
    /\ UNCHANGED <<envKey, loadedKey, elapsed, statusLine>>
    /\ UNCHANGED limiterVars
    /\ UNCHANGED hookVars

\* router.post(path, limiter, handler): the limiter answers 429 or calls the handler
Route(route) ==
    /\ pc = "idle"
    /\ \E c \in Clients, body \in RouteBodies(route) :
        /\ Limit(c, route)
        /\ IF lastRes'.next
           THEN Handler(route, body)
           ELSE /\ call' = [via |-> "http", route |-> route, input |-> body,
                            goal |-> Undefined, context |-> Undefined, todos |-> Undefined]
                /\ http' = Json(429, TooManyBody(lastRes'.retryAfter, maxRequests(route)))
                /\ pc' = "done"
                /\ UNCHANGED <<fetchCalls, timer, received, outcome>>
    /\ UNCHANGED <<now, envKey, loadedKey, elapsed, statusLine>>
    /\ UNCHANGED hookVars

RouteAnalyze == Route("analyze")

RouteBreakdown == Route("breakdown")

Catch(route, error) == IF route = "analyze" THEN AnalysisCatch(error) ELSE BreakdownCatch(error)

\* fetch() rejects: the connection failed
FetchReject ==
    /\ pc = "fetch"
    /\ Settle(call, Catch(call.route, [name |-> "TypeError", message |-> "fetch failed"]))
    /\ UNCHANGED <<envKey, loadedKey, call, fetchCalls, timer, elapsed, statusLine, received>>
    /\ UNCHANGED limiterVars
    /\ UNCHANGED hookVars

\* the delay given to setTimeout
TimeoutMs(route) == IF route = "analyze" THEN analysisTimeoutMs ELSE breakdownTimeoutMs

\* the timer set before fetch() fires: controller.abort() rejects the fetch
Abort ==
    /\ pc = "fetch"
    /\ timer = "armed"
    /\ timer' = "fired"
    /\ elapsed' = TimeoutMs(call.route)
    /\ Settle(call, Catch(call.route, [name |-> "AbortError", message |-> "This operation was aborted"]))
    /\ UNCHANGED <<envKey, loadedKey, call, fetchCalls, statusLine, received>>
    /\ UNCHANGED limiterVars
    /\ UNCHANGED hookVars

\* fetch() resolves with the status line; clearTimeout; the service goes on to
\* `await response.text()` for a non-ok status, to `await response.json()` otherwise
FetchResolve ==
    /\ pc = "fetch"
    /\ timer' = "cleared"
    /\ \E r \in Responses :
        /\ statusLine' = r
        /\ pc' = IF r.ok THEN "body" ELSE "text"
    /\ UNCHANGED <<envKey, loadedKey, call, fetchCalls, elapsed, received, outcome, http>>
    /\ UNCHANGED limiterVars
    /\ UNCHANGED hookVars

\* response.text() resolves: the error text is logged and the API error thrown
TextRead ==
    /\ pc = "text"
    /\ Settle(call, Catch(call.route, ApiError(statusLine)))
    /\ UNCHANGED <<envKey, loadedKey, call, fetchCalls, timer, elapsed, statusLine, received>>
    /\ UNCHANGED limiterVars
    /\ UNCHANGED hookVars

\* response.text() rejects: the connection broke while the error body was read
TextFail ==
    /\ pc = "text"
    /\ Settle(call, Catch(call.route, [name |-> "TypeError", message |-> "terminated"]))
    /\ UNCHANGED <<envKey, loadedKey, call, fetchCalls, timer, elapsed, statusLine, received>>
    /\ UNCHANGED limiterVars
    /\ UNCHANGED hookVars

\* the delay of the cleared timer runs out while the body is still being read
Overrun ==
    /\ pc \in {"text", "body"}
    /\ timer = "cleared"
    /\ elapsed < TimeoutMs(call.route)
    /\ elapsed' = TimeoutMs(call.route)
    /\ UNCHANGED <<envKey, loadedKey, pc, call, fetchCalls, timer, statusLine, received, outcome, http>>
    /\ UNCHANGED limiterVars
    /\ UNCHANGED hookVars

After(c, body, syntaxMessage) ==
    IF c.route = "analyze" THEN AnalysisAfter(body, syntaxMessage)
    ELSE BreakdownAfter(body, c.goal, syntaxMessage)

\* response.json() resolves: the rest of the try block runs
BodyRead ==
    /\ pc = "body"
    /\ \E body \in Bodies(call.route), syntaxMessage \in SyntaxMessages :
        /\ received' = body
        /\ Settle(call, After(call, body, syntaxMessage))
    /\ UNCHANGED <<envKey, loadedKey, call, fetchCalls, timer, elapsed, statusLine>>
    /\ UNCHANGED limiterVars
    /\ UNCHANGED hookVars

\* response.json() rejects: the body was not JSON
BodyFail ==
    /\ pc = "body"
    /\ \E syntaxMessage \in SyntaxMessages :
        Settle(call, Catch(call.route, [name |-> "SyntaxError", message |-> syntaxMessage]))
    /\ UNCHANGED <<envKey, loadedKey, call, fetchCalls, timer, elapsed, statusLine, received>>
    /\ UNCHANGED limiterVars
    /\ UNCHANGED hookVars

\* the request is over; the next one may come
Finish ==
    /\ pc = "done"
    /\ pc' = "idle"
    /\ call' = NoCall
    /\ fetchCalls' = 0
    /\ timer' = "none"
    /\ elapsed' = 0
    /\ statusLine' = NoStatus
    /\ received' = Undefined
    /\ outcome' = NoOutcome
    /\ http' = NoResponse
    /\ UNCHANGED <<envKey, loadedKey>>
    /\ UNCHANGED limiterVars
    /\ UNCHANGED hookVars

\* the environment variable is set or removed between requests
SetEnv ==
    /\ pc = "idle"
    /\ envKey' = IF envKey = "" THEN "test-api-key" ELSE ""
    /\ UNCHANGED <<loadedKey, pc, call, fetchCalls, timer, elapsed, statusLine,
                    received, outcome, http>>
    /\ UNCHANGED limiterVars
    /\ UNCHANGED hookVars

----------------------------------------------------------------------------
(* useTaskBreakdown.ts *)

\* titles of the tasks of a breakdown response
Titles == <<"Book campsite", "Pack gear", "Plan route", "Buy food", "Check weather">>

\* the k-th task of a response
SuggestedTask(k) == [title |-> Titles[k], description |-> "Before the trip"]

\* what generateTaskBreakdown resolves to
HookResponses ==
    {[suggestedTasks |-> [k \in 1..n |-> SuggestedTask(k)],
      reasoning |-> IF n = 1 THEN Undefined ELSE JStr("Ordered by dependency")] :
        n \in 1..MaxSuggestions}

\* what a promise is rejected with: an Error, or a value that is no Error
Rejections == {[isError |-> TRUE, message |-> "Network Error"],
               [isError |-> FALSE, message |-> ""]}

\* the `updates` given to updateTask
Updates == {[title |-> "Book cabin"], [title |-> " "]}

\* `{ ...currentTask, ...updates }`
Merge(currentTask, updates) ==
    [f \in DOMAIN currentTask |-> IF f \in DOMAIN updates THEN updates[f] ELSE currentTask[f]]

\* the indices of a list, 0-based
IndicesOf(list) == 0..(Len(list) - 1)

\* the task as it was suggested, whatever edit it has
CurrentTaskUnedited(index) == suggestions[index + 1]

\* `editedTasks.get(index) || suggestions[index]`
CurrentTask(index) ==
    IF index \in DOMAIN editedTasks THEN editedTasks[index] ELSE suggestions[index + 1]

\* `!task.title || task.title.trim().length === 0`
BlankTitle(task) == task.title = "" \/ Len(Trim(task.title)) = 0

\* `err instanceof Error ? err.message : fallback`
MessageOf(err, fallback) == IF err.isError THEN err.message ELSE fallback

NoOp == [name |-> "", index |-> -1]

Ran(name, index) == [name |-> name, index |-> index]

\* a step that makes no createTodo and no onTasksAdded call
NoCalls == created' = <<>> /\ notified' = 0

\* a step of the hook leaves the backend alone
Frontend == UNCHANGED limiterVars /\ UNCHANGED pipelineVars

\* generateBreakdown, up to its await
generateBreakdown ==
    /\ generating < MaxPending
    /\ isLoading' = TRUE
    /\ error_' = JNull
    /\ generating' = generating + 1
    /\ op' = Ran("generateBreakdown", -1)
    /\ NoCalls
    /\ UNCHANGED <<suggestions, selectedTasks, editedTasks, reasoning, adding>>
    /\ Frontend

\* generateBreakdown after its await: the try block and finally
GenerateResolve ==
    /\ generating > 0
    /\ \E response \in HookResponses :
        /\ suggestions' = response.suggestedTasks
        /\ reasoning' = response.reasoning
        /\ selectedTasks' = IndicesOf(response.suggestedTasks)
    /\ editedTasks' = <<>>
    /\ isLoading' = FALSE
    /\ generating' = generating - 1
    /\ op' = Ran("generateBreakdown.resolved", -1)
    /\ NoCalls
    /\ UNCHANGED <<error_, adding>>
    /\ Frontend

\* generateBreakdown after its await: the catch block and finally
GenerateReject ==
    /\ generating > 0
    /\ \E err \in Rejections :
        error_' = JStr(MessageOf(err, "Failed to generate task breakdown. Please try again."))
    /\ suggestions' = <<>>
    /\ selectedTasks' = {}
    /\ isLoading' = FALSE
    /\ generating' = generating - 1
    /\ op' = Ran("generateBreakdown.rejected", -1)
    /\ NoCalls
    /\ UNCHANGED <<editedTasks, reasoning, adding>>
    /\ Frontend

toggleTaskSelection(index) ==
    /\ selectedTasks' = IF index \in selectedTasks THEN selectedTasks \ {index}
                        ELSE selectedTasks \cup {index}
    /\ op' = Ran("toggleTaskSelection", index)
    /\ NoCalls
    /\ UNCHANGED <<suggestions, editedTasks, isLoading, error_, reasoning, generating, adding>>
    /\ Frontend

selectAll ==
    /\ selectedTasks' = IndicesOf(suggestions)
    /\ op' = Ran("selectAll", -1)
    /\ NoCalls
    /\ UNCHANGED <<suggestions, editedTasks, isLoading, error_, reasoning, generating, adding>>
    /\ Frontend

deselectAll ==
    /\ selectedTasks' = {}
    /\ op' = Ran("deselectAll", -1)
    /\ NoCalls
    /\ UNCHANGED <<suggestions, editedTasks, isLoading, error_, reasoning, generating, adding>>
    /\ Frontend

updateTask(index, updates) ==
    /\ editedTasks' = [i \in DOMAIN editedTasks \cup {index} |->
                          IF i = index THEN Merge(CurrentTask(index), updates)
                          ELSE editedTasks[i]]
    /\ op' = Ran("updateTask", index)
    /\ NoCalls
    /\ UNCHANGED <<suggestions, selectedTasks, isLoading, error_, reasoning, generating, adding>>
    /\ Frontend

\* a removeTask that leaves the indices above the removed one where they were
removeTaskUnshifted(index) ==
    /\ suggestions' = SubSeq(suggestions, 1, index)
                      \o SubSeq(suggestions, index + 2, Len(suggestions))
    /\ selectedTasks' = {s \in selectedTasks : s # index /\ s < Len(suggestions) - 1}
    /\ editedTasks' = [e \in {k \in DOMAIN editedTasks : k # index /\ k < Len(suggestions) - 1} |->
                          editedTasks[e]]
    /\ op' = Ran("removeTask", index)
    /\ NoCalls
    /\ UNCHANGED <<isLoading, error_, reasoning, generating, adding>>
    /\ Frontend

removeTask(index) ==
    /\ suggestions' = SubSeq(suggestions, 1, index)
                      \o SubSeq(suggestions, index + 2, Len(suggestions))
    /\ selectedTasks' = {s \in selectedTasks : s < index}
                        \cup {s - 1 : s \in {t \in selectedTasks : t > index}}
    /\ editedTasks' =
            LET kept == {e \in DOMAIN editedTasks : e < index}
                moved == {e \in DOMAIN editedTasks : e > index}
            IN  [j \in kept \cup {e - 1 : e \in moved} |->
                    IF j + 1 \in moved THEN editedTasks[j + 1] ELSE editedTasks[j]]
    /\ op' = Ran("removeTask", index)
    /\ NoCalls
    /\ UNCHANGED <<isLoading, error_, reasoning, generating, adding>>
    /\ Frontend

\* the argument of createTodo for a task
TodoOf(task) == [title |-> task.title, description |-> task.description]

\* addSelectedTasks, up to its await or its early end
addSelectedTasks ==
    /\ IF selectedTasks = {}
       THEN /\ error_' = JStr("Please select at least one task to add")
            /\ created' = <<>>
            /\ UNCHANGED <<isLoading, adding>>
       ELSE LET tasksToAdd == [i \in selectedTasks |-> CurrentTask(i)] IN
            IF \E i \in selectedTasks : BlankTitle(tasksToAdd[i])
            THEN /\ error_' = JStr("All tasks must have a title")
                 /\ isLoading' = FALSE
                 /\ created' = <<>>
                 /\ UNCHANGED adding
            ELSE /\ adding < MaxPending
                 /\ error_' = JNull
                 /\ isLoading' = TRUE
                 /\ created' = [i \in selectedTasks |-> TodoOf(tasksToAdd[i])]
                 /\ adding' = adding + 1
    /\ op' = Ran("addSelectedTasks", -1)
    /\ notified' = 0
    /\ UNCHANGED <<suggestions, selectedTasks, editedTasks, reasoning, generating>>
    /\ Frontend

\* addSelectedTasks after Promise.all resolved
AddResolve ==
    /\ adding > 0
    /\ suggestions' = <<>>
    /\ selectedTasks' = {}
    /\ editedTasks' = <<>>
    /\ reasoning' = Undefined
    /\ notified' = 1
    /\ created' = <<>>
    /\ isLoading' = FALSE
    /\ adding' = adding - 1
    /\ op' = Ran("addSelectedTasks.resolved", -1)
    /\ UNCHANGED <<error_, generating>>
    /\ Frontend

\* addSelectedTasks after Promise.all rejected
AddReject ==
    /\ adding > 0
    /\ \E err \in Rejections :
        error_' = JStr(MessageOf(err, "Failed to add tasks. Please try again."))
    /\ isLoading' = FALSE
    /\ adding' = adding - 1
    /\ op' = Ran("addSelectedTasks.rejected", -1)
    /\ NoCalls
    /\ UNCHANGED <<suggestions, selectedTasks, editedTasks, reasoning, generating>>
    /\ Frontend

clearSuggestions ==
    /\ suggestions' = <<>>
    /\ selectedTasks' = {}
    /\ editedTasks' = <<>>
    /\ error_' = JNull
    /\ reasoning' = Undefined
    /\ op' = Ran("clearSuggestions", -1)
    /\ NoCalls
    /\ UNCHANGED <<isLoading, generating, adding>>
    /\ Frontend

\* the page calls a function of the latest render with the index of a listed task
ToggleTaskSelection == \E index \in IndicesOf(suggestions) : toggleTaskSelection(index)

UpdateTask == \E index \in IndicesOf(suggestions), updates \in Updates : updateTask(index, updates)

RemoveTask == \E index \in IndicesOf(suggestions) : removeTask(index)

----------------------------------------------------------------------------
(* Specifications *)

Init ==
    /\ now = 0
    /\ rateLimitStore = [c \in Clients |-> NoEntry]
    /\ admitted = [c \in Clients |-> [r \in Routes |-> 0]]
    /\ lastRes = NoRes
    /\ unswept = [c \in Clients |-> NoEntry]
    /\ unsweptRes = NoRes
    /\ envKey \in {"", "test-api-key"}
    /\ loadedKey = envKey
    /\ pc = "idle"
    /\ call = NoCall
    /\ fetchCalls = 0
    /\ timer = "none"
    /\ elapsed = 0
    /\ statusLine = NoStatus
    /\ received = Undefined
    /\ outcome = NoOutcome
    /\ http = NoResponse
    /\ suggestions = <<>>
    /\ selectedTasks = {}
    /\ editedTasks = <<>>
    /\ isLoading = FALSE
    /\ error_ = JNull
    /\ reasoning = Undefined
    /\ generating = 0
    /\ adding = 0
    /\ op = NoOp
    /\ created = <<>>
    /\ notified = 0

\* the limiter, under any interleaving of requests, clock readings and sweeps
InitLimiter == Init /\ envKey = "test-api-key"

\* the two routes of a process started without an API key, inside one window
InitRoutes == Init /\ envKey = ""

NextRoutes == RouteAnalyze \/ RouteBreakdown \/ Finish

SpecRoutes == InitRoutes /\ [][NextRoutes]_vars

\* the hook of one mounted page
InitHook == Init /\ envKey = "test-api-key"

NextHook ==
    \/ generateBreakdown
    \/ GenerateResolve
    \/ GenerateReject
    \/ ToggleTaskSelection
    \/ selectAll
    \/ deselectAll
    \/ UpdateTask
    \/ RemoveTask
    \/ addSelectedTasks
    \/ AddResolve
    \/ AddReject
    \/ clearSuggestions

SpecHook == InitHook /\ [][NextHook]_vars

NextLimiter == Request \/ Sweep \/ Tick

SpecLimiter == InitLimiter /\ [][NextLimiter]_vars

\* one request at a time through a controller or a service
Next ==
    \/ CallBreakdown \/ PostBreakdown \/ CallAnalyze \/ PostAnalyze
    \/ FetchReject \/ Abort \/ FetchResolve \/ TextRead \/ TextFail \/ Overrun
    \/ BodyRead \/ BodyFail
    \/ Finish \/ SetEnv

Spec == Init /\ [][Next]_vars

----------------------------------------------------------------------------
(* Properties of the rate limiter, checked under SpecLimiter *)

\* C1: once an identity has had N requests counted in the current window of a
\* limiter with ceiling N, a further request in that window is answered 429
\* with a Retry-After of at most 60 seconds and is not passed to the handler.
C1_RejectedOverCeiling ==
    (lastRes.client # "" /\ lastRes.seen >= maxRequests(lastRes.route)) =>
        /\ lastRes.status = 429
        /\ lastRes.retryAfter <= 60
        /\ ~lastRes.next

C1_Witness ==
    /\ lastRes.route = "analyze"
    /\ lastRes.seen >= analysisMaxRequests
    /\ lastRes.status = 429
    /\ lastRes.retryAfter = 60

\* C2: each route keeps its own counter per identity: a request is answered
\* 429 only when the identity already had the route's ceiling of requests
\* admitted on that same route in the window.
C2_SeparateCounters ==
    lastRes.status = 429 =>
        admitted[lastRes.client][lastRes.route] >= maxRequests(lastRes.route)

----------------------------------------------------------------------------
(* Properties of the two pipelines, checked under Spec *)

Done(route) == pc = "done" /\ call.route = route

\* the goal generateTaskBreakdown was called with
GoalOf(c) == IF c.via = "direct" THEN c.input ELSE Get(c.input, "goal")

\* the JSON value in the completion that was received, when there is one
Parsed ==
    LET content == Unwrap(received)
        span == MatchBraces(content.value.x)
    IN  IF content.kind = "return" /\ span.found THEN JSONParse(span.text)
        ELSE [ok |-> FALSE, val |-> Undefined]

\* an entry of suggestedTasks that is an object with a string title, non-empty once trimmed
ValidEntry(e) ==
    /\ e.t = "object"
    /\ Get(e, "title").t = "string"
    /\ \E i \in 1..Len(Get(e, "title").s) : ~IsWhiteSpace(SubSeq(Get(e, "title").s, i, i))

\* the provider's suggestedTasks, when it sent an array
SentIn(parsed) ==
    IF parsed.ok /\ IsArray(Get(parsed.val, "suggestedTasks"))
    THEN Get(parsed.val, "suggestedTasks").a ELSE <<>>

\* the positions of the valid entries
ValidIn(sent) == {i \in 1..Len(sent) : ValidEntry(sent[i])}

\* the position of the k-th valid entry
NthOf(valid, k) == CHOOSE i \in valid : Cardinality({j \in valid : j <= i}) = k

\* the suggestedTasks of the BreakdownResult that was returned
Kept == Get(outcome.value, "suggestedTasks").a

Returned(route) == Done(route) /\ outcome.kind = "return"

\* C3: for an empty todo list, with or without an API key, analyzeTodosWithAI
\* returns the canned summary without a provider call, and POST /todos/analyze
\* with todos = [] is answered 200 with that summary.
C3_EmptyListCanned ==
    (Done("analyze") /\ IsArray(IF call.via = "direct" THEN call.input ELSE Get(call.input, "todos"))
        /\ (IF call.via = "direct" THEN call.input ELSE Get(call.input, "todos")).a = <<>>) =>
        /\ fetchCalls = 0
        /\ outcome.kind = "return"
        /\ Get(outcome.value, "summary") = JStr(EmptySummary)
        /\ call.via = "http" =>
            (http.sent /\ http.status = 200 /\ Get(http.body, "summary") = JStr(EmptySummary))

\* C4: whenever analyzeTodosWithAI returns, insights is an array and summary
\* is a non-empty string.
C4_SummaryIsString ==
    Returned("analyze") =>
        /\ IsArray(Get(outcome.value, "insights"))
        /\ Get(outcome.value, "summary").t = "string"
        /\ Get(outcome.value, "summary") # JStr("")

\* C5: with an API key configured, generateTaskBreakdown fails for a goal that
\* is empty, shorter than 5 or longer than 500 characters after trim, with one
\* message per case, and the provider is not called.
C5_GoalRejected ==
    (Done("breakdown") /\ outcome.kind # "" /\ envKey # "") =>
        LET n == Len(Trim(GoalOf(call).s))
            expected == IF n = 0 THEN "Goal cannot be empty"
                        ELSE IF n < 5
                        THEN "Please provide a more specific goal (at least 5 characters)"
                        ELSE "Goal is too long (maximum 500 characters)"
        IN  (n < 5 \/ n > 500) =>
                /\ outcome.kind = "throw"
                /\ outcome.error.message = expected
                /\ fetchCalls = 0

C5_Witness ==
    /\ Done("breakdown") /\ call.via = "direct" /\ envKey # ""
    /\ Len(Trim(GoalOf(call).s)) > 500
    /\ Len(GoalOf(call).s) > Len(Trim(GoalOf(call).s))
    /\ outcome.kind = "throw"

\* C6: POST /todos/breakdown with a string goal of trimmed length below 5 is
\* answered 400 with no provider call, with or without an API key.
C6_ShortGoal400 ==
    (Done("breakdown") /\ call.via = "http" /\ GoalOf(call).t = "string"
        /\ Len(Trim(GoalOf(call).s)) < 5) =>
        (http.sent /\ http.status = 400 /\ fetchCalls = 0)

\* C7: the breakdown result holds exactly the provider's entries that are
\* objects with a string title non-empty after trim, in their original order;
\* and such a result is returned whenever there is at least one such entry.
C7_KeepsValidInOrder ==
    Done("breakdown") =>
        LET sent == SentIn(Parsed)
            valid == ValidIn(sent)
        IN  /\ (outcome.kind = "return") = (valid # {})
            /\ outcome.kind = "return" =>
                /\ Len(Kept) = Cardinality(valid)
                /\ \A k \in 1..Len(Kept) :
                    Get(Kept[k], "title") = JStr(Trim(Get(sent[NthOf(valid, k)], "title").s))

C7_Witness ==
    /\ Returned("breakdown")
    /\ Len(SentIn(Parsed)) = 3
    /\ ValidIn(SentIn(Parsed)) = {1, 3}
    /\ Get(Kept[1], "title") # Get(Kept[2], "title")

\* C8: when suggestedTasks is an empty array or holds no valid entry,
\* generateTaskBreakdown fails with the empty-result error, and it never
\* returns a result with an empty suggestedTasks list.
C8_EmptyResultFails ==
    Done("breakdown") =>
        LET parsed == Parsed IN
        /\ (/\ parsed.ok
            /\ IsArray(Get(parsed.val, "suggestedTasks"))
            /\ ValidIn(SentIn(parsed)) = {}) =>
                /\ outcome.kind = "throw"
                /\ outcome.error.message = "AI response did not contain valid suggested tasks"
        /\ outcome.kind = "return" => Len(Kept) > 0

C8_Witness ==
    /\ Done("breakdown")
    /\ outcome.error.message = "AI response did not contain valid suggested tasks"
    /\ Len(SentIn(Parsed)) = 2
    /\ ValidIn(SentIn(Parsed)) = {}

\* C9: when the completion parses as JSON but fails schema validation, the
\* breakdown controller itself answers 500 with the "not in expected format"
\* error body instead of handing the error to the generic error handler.
C9_SchemaFailure500 ==
    (Done("breakdown") /\ call.via = "http" /\ received # Undefined) =>
        LET parsed == Parsed IN
        (parsed.ok /\ ValidIn(SentIn(parsed)) = {}) =>
            /\ http.sent
            /\ http.status = 500
            /\ Get(http.body, "error")
                = JStr("AI response was not in expected format. Please try again.")

\* C10: a retained task carries estimatedPriority exactly when the provider's
\* value is one of 'low', 'medium', 'high', and then unchanged; any other
\* value is removed, the task is kept and no default is put in its place.
C10_PriorityStripped ==
    Returned("breakdown") =>
        LET sent == SentIn(Parsed)
            valid == ValidIn(sent)
        IN  /\ Len(Kept) = Cardinality(valid)
            /\ \A k \in 1..Len(Kept) :
                LET was == Get(sent[NthOf(valid, k)], "estimatedPriority")
                    kept == Get(Kept[k], "estimatedPriority")
                IN  IF was \in {JStr("low"), JStr("medium"), JStr("high")}
                    THEN kept = was
                    ELSE kept = Undefined

C10_Witness ==
    /\ Returned("breakdown")
    /\ Len(Kept) = 2
    /\ Get(Kept[1], "title") = JStr("Plan route")
    /\ Get(Kept[1], "estimatedPriority") = Undefined
    /\ Get(SentIn(Parsed)[1], "estimatedPriority") = JStr("High")

----------------------------------------------------------------------------
(* Properties of the error paths, checked under Spec *)

\* a controller has dealt with a failure of its service
Failed(route) == Done(route) /\ call.via = "http" /\ outcome.kind = "throw"

GoalMessages ==
    {"Goal cannot be empty",
     "Please provide a more specific goal (at least 5 characters)",
     "Goal is too long (maximum 500 characters)"}

TimeoutMessage(route) ==
    IF route = "analyze" THEN "AI analysis request timed out. Please try again."
    ELSE "Task breakdown request timed out. Please try again with a simpler goal."

\* C12: once the deadline of a started provider call has passed (10 s for
\* analysis, 15 s for breakdown), the call is no longer pending: the request
\* has ended with the timeout error, whether the delay was before the
\* response headers or while the response body was read.
C12_EndedByDeadline ==
    (fetchCalls > 0 /\ elapsed >= TimeoutMs(call.route)) =>
        /\ pc = "done"
        /\ outcome.kind = "throw"
        /\ outcome.error.message = TimeoutMessage(call.route)

\* C13: a call of either service makes at most one provider call, however it
\* ends; after a timeout the request has ended, over HTTP with status 504,
\* with that one provider call made.
C13_AtMostOneCall ==
    /\ fetchCalls <= 1
    /\ pc \in {"fetch", "text", "body"} => fetchCalls = 1
    /\ timer = "fired" =>
        /\ pc = "done"
        /\ fetchCalls = 1
        /\ outcome.error.message = TimeoutMessage(call.route)
        /\ call.via = "http" => (http.sent /\ http.status = 504)

C13_Witness ==
    /\ Done("analyze")
    /\ call.via = "http"
    /\ timer = "fired"
    /\ fetchCalls = 1
    /\ http.status = 504

\* the controller of the request in progress got past its checks, or the
\* service was called directly
ServiceCalled ==
    /\ call.route # ""
    /\ call.via = "http" =>
        ~(IF call.route = "analyze" THEN AnalyzeCheck(call.input) ELSE BreakdownCheck(call.input)).sent

\* the todo list analyzeTodosWithAI was called with
TodosOf(c) ==
    IF c.via = "direct" THEN c.input.a ELSE validatedTodos(Get(c.input, "todos").a)

\* C14: when the API key is absent from the environment at the moment of the
\* call, also when it was there at process start and removed later,
\* analyzeTodosWithAI on a non-empty list and generateTaskBreakdown fail with
\* the 'not configured' error and make no provider call.
C14_AbsentKeyFails ==
    (ServiceCalled /\ envKey = "" /\ (call.route = "analyze" => TodosOf(call) # <<>>)) =>
        /\ pc = "done"
        /\ outcome.kind = "throw"
        /\ outcome.error.message = "OPENROUTER_API_KEY is not configured"
        /\ fetchCalls = 0

\* C15: when the provider answers with a non-2xx status, the service fails
\* with "OpenRouter API error: <status> <statusText>", and its caller gets
\* that error, not the generic failure message.
C15_ApiErrorUnchanged ==
    (pc = "done" /\ statusLine # NoStatus /\ ~statusLine.ok) =>
        /\ outcome.kind = "throw"
        /\ outcome.error.message
            = "OpenRouter API error: " \o statusLine.status \o " " \o statusLine.statusText
        /\ call.via = "http" => http = Next_(outcome.error)

\* a 2xx reply with zero choices, or whose first choice has no or an empty content
EmptyReply(data) ==
    /\ data.t = "object"
    /\ Get(data, "choices").t = "array"
    /\ LET choices == Get(data, "choices").a IN
        \/ Len(choices) = 0
        \/ /\ Len(choices) > 0
           /\ Get(choices[1], "message").t = "object"
           /\ Get(Get(choices[1], "message"), "content") \in {Undefined, JNull, JText(<<>>)}

\* C16: in both pipelines, a 2xx reply with zero choices or an empty message
\* content makes the service fail with "No response from AI model", which is
\* not the error a network failure ends in.
C16_EmptyResponseDistinct ==
    (pc = "done" /\ EmptyReply(received)) =>
        /\ outcome.kind = "throw"
        /\ outcome.error.message = "No response from AI model"
        /\ outcome # Catch(call.route, [name |-> "TypeError", message |-> "fetch failed"])

\* the completion that was received holds no '{...}' span, or one that is not JSON
Malformed ==
    LET content == Unwrap(received)
        span == MatchBraces(content.value.x)
    IN  /\ received # Undefined
        /\ content.kind = "return"
        /\ ~span.found \/ ~JSONParse(span.text).ok

\* C17: in the breakdown pipeline a completion without a '{...}' span and a
\* completion whose span is not valid JSON end in the same malformed-response
\* error, and POST /todos/breakdown answers both with 500 and the error about
\* the unexpected format.
C17_MalformedSameError ==
    (Done("breakdown") /\ Malformed) =>
        /\ outcome.kind = "throw"
        /\ outcome.error.message = "AI response was not in expected JSON format"
        /\ call.via = "http" =>
            /\ http.sent
            /\ http.status = 500
            /\ Get(http.body, "error")
                = JStr("AI response was not in expected format. Please try again.")

----------------------------------------------------------------------------
(* Properties of the two controllers' checks, checked under Spec *)

\* C18: POST /todos/breakdown is answered 400, and generateTaskBreakdown is
\* not called, when goal is missing or no string, when context is present and
\* no string, or when maxTasks is present and not a number from 1 to 20.
C18_BadBody400 ==
    (Done("breakdown") /\ call.via = "http") =>
        LET goal == Get(call.input, "goal")
            context == Get(call.input, "context")
            maxTasks == Get(call.input, "maxTasks")
        IN  (\/ goal.t # "string"
             \/ context.t \notin {"undefined", "string"}
             \/ /\ maxTasks.t # "undefined"
                /\ (maxTasks.t # "number" \/ maxTasks.n < 1 \/ maxTasks.n > 20)) =>
                /\ http.sent
                /\ http.status = 400
                /\ outcome = NoOutcome
                /\ fetchCalls = 0

C18_Witness ==
    /\ Done("breakdown")
    /\ call.via = "http"
    /\ envKey # ""
    /\ Get(call.input, "maxTasks") = JNum(25)
    /\ http = Json(400, ErrorBody("maxTasks must be a number between 1 and 20"))
    /\ outcome = NoOutcome

\* request.maxTasks of the breakdown in progress
RequestedMaxTasks == IF call.via = "http" THEN Get(call.input, "maxTasks") ELSE Undefined

\* C19: a successful breakdown returns at most as many suggestedTasks as the
\* effective limit, the smaller of the requested maxTasks (the configured
\* default when none is requested) and the configured ceiling, whatever the
\* provider sent.
C19_AtMostMaxTasks ==
    Returned("breakdown") => Len(Kept) <= EffectiveMaxTasks(RequestedMaxTasks)

\* an entry that is a non-null object with a string title
ValidTodo(e) == e.t = "object" /\ Get(e, "title").t = "string"

\* C20: POST /todos/analyze is answered 400, and analyzeTodosWithAI is not
\* called, when todos is missing or no array; otherwise the service is called
\* with exactly the submitted entries that are non-null objects with a string
\* title, in their order.
C20_TodosFiltered ==
    (Done("analyze") /\ call.via = "http") =>
        LET todos == Get(call.input, "todos") IN
        IF todos.t # "array"
        THEN /\ http.sent
             /\ http.status = 400
             /\ call.todos = Undefined
             /\ outcome = NoOutcome
             /\ fetchCalls = 0
        ELSE LET valid == {i \in 1..Len(todos.a) : ValidTodo(todos.a[i])} IN
             /\ call.todos.t = "array"
             /\ Len(call.todos.a) = Cardinality(valid)
             /\ \A k \in 1..Len(call.todos.a) : call.todos.a[k] = todos.a[NthOf(valid, k)]

C20_Witness ==
    /\ Done("analyze")
    /\ call.via = "http"
    /\ Get(call.input, "todos").t = "array"
    /\ call.todos.t = "array"
    /\ Len(Get(call.input, "todos").a) = 8
    /\ Len(call.todos.a) = 3
    /\ call.todos.a[2] = JObj(<<<<"title", JStr("")>>>>)
    /\ fetchCalls = 1

----------------------------------------------------------------------------
(* Properties of sanitization and extraction, checked under Spec *)

\* r is s without its leading and trailing white space
IsTrimOf(r, s) ==
    /\ r # "" => (~IsWhiteSpace(SubSeq(r, 1, 1)) /\ ~IsWhiteSpace(SubSeq(r, Len(r), Len(r))))
    /\ \E i \in 0..(Len(s) - Len(r)) :
        /\ SubSeq(s, i + 1, i + Len(r)) = r
        /\ \A k \in (1..i) \cup ((i + Len(r) + 1)..Len(s)) : IsWhiteSpace(SubSeq(s, k, k))

\* C21: the goal of a successful breakdown is the input goal without its
\* leading and trailing white space, is 5 to 500 characters long, and is the
\* string that was put into the user prompt.
C21_GoalEchoTrimmed ==
    Returned("breakdown") =>
        LET goal == Get(outcome.value, "goal") IN
        /\ goal.t = "string"
        /\ IsTrimOf(goal.s, GoalOf(call).s)
        /\ Len(goal.s) >= 5
        /\ Len(goal.s) <= 500
        /\ goal = call.goal

C21_Witness ==
    /\ Returned("breakdown")
    /\ Len(Get(outcome.value, "goal").s) = 500
    /\ Len(GoalOf(call).s) > 500

\* POST /todos/breakdown got as far as the provider call with a context of more
\* than 500 characters
LongContext ==
    /\ call.route = "breakdown"
    /\ call.via = "http"
    /\ ServiceCalled
    /\ Get(call.input, "context").t = "string"
    /\ Len(Get(call.input, "context").s) > 500

\* r is s without its leading white space, cut after 500 characters, and without
\* its trailing white space when nothing was cut
IsCutOfTrim(r, s) ==
    /\ Len(r) <= 500
    /\ \E i \in 0..(Len(s) - Len(r)) :
        /\ SubSeq(s, i + 1, i + Len(r)) = r
        /\ \A k \in 1..i : IsWhiteSpace(SubSeq(s, k, k))
        /\ r # "" => ~IsWhiteSpace(SubSeq(r, 1, 1))
        /\ \/ /\ Len(r) = 500
              /\ \E k \in (i + 501)..Len(s) : ~IsWhiteSpace(SubSeq(s, k, k))
           \/ /\ \A k \in (i + Len(r) + 1)..Len(s) : IsWhiteSpace(SubSeq(s, k, k))
              /\ r # "" => ~IsWhiteSpace(SubSeq(r, Len(r), Len(r)))

\* C22 (as amended): a context of more than 500 characters causes no error:
\* the request goes on to the provider call, and the context in its prompt is
\* the trimmed context cut to its first 500 characters.
C22_ContextCut ==
    (LongContext /\ envKey # "") =>
        /\ fetchCalls = 1
        /\ call.context.t = "string"
        /\ IsCutOfTrim(call.context.s, Get(call.input, "context").s)

C22_Witness ==
    /\ LongContext
    /\ pc = "done"
    /\ outcome.kind = "return"
    /\ Len(call.context.s) = 500
    /\ IsWhiteSpace(SubSeq(Get(call.input, "context").s, 1, 1))

\* C22 (as stated): moreover the request goes on exactly as a request whose
\* context is that cut string: the same context line is in the prompt.
C22_AsWithCutContext ==
    (LongContext /\ envKey # "") =>
        /\ fetchCalls = 1
        /\ ContextLine(call.context) = ContextLine(SanitizedContext(call.context))

\* the words after the object in a completion with commentary
Closing == <<Word("Hope"), Word("this"), Word("helps")>>

\* the completion that was received, when there is one
Completion == IF Unwrap(received).kind = "return" THEN Unwrap(received).value.x ELSE <<>>

\* the completion is brace-free prose, one JSON object, brace-free prose
Wrapped(c) ==
    /\ Len(c) > Len(Prose) + Len(Closing)
    /\ SubSeq(c, 1, Len(Prose)) = Prose
    /\ SubSeq(c, Len(c) - Len(Closing) + 1, Len(c)) = Closing

\* the object between the prose
Inner(c) == SubSeq(c, Len(Prose) + 1, Len(c) - Len(Closing))

\* C23: from a completion made of brace-free prose, one valid JSON object and
\* brace-free prose the extractor recovers exactly the object, and the
\* pipeline ends as it does for a completion that is the object alone.
C23_ProseIgnored ==
    (pc = "done" /\ received # Undefined /\ Wrapped(Completion)) =>
        LET inner == Inner(Completion) IN
        /\ JSONParse(inner).ok
        /\ JSONParse(inner).val.t = "object"
        /\ MatchBraces(Completion) = [found |-> TRUE, text |-> inner]
        /\ \A m \in SyntaxMessages : outcome = After(call, Envelope(JText(inner)), m)

C23_Witness ==
    /\ Returned("breakdown")
    /\ Wrapped(Completion)
    /\ Get(outcome.value, "reasoning") = JStr("Ordered by dependency")

----------------------------------------------------------------------------
(* Properties of the limiter's windows, checked under SpecLimiter *)

\* C24: a request made while now <= resetTime, admitted or rejected, counts in
\* the window and leaves its resetTime as it was; the first request of an
\* identity made after resetTime, also of one that was rejected before, is
\* admitted and starts a window with count 1.
C24_FixedWindow ==
    [][\A c \in Clients :
        LET old == rateLimitStore[c]
            new == rateLimitStore'[c]
        IN  (new # old /\ new # NoEntry) =>
                IF old # NoEntry /\ now <= old.resetTime
                THEN /\ new.resetTime = old.resetTime
                     /\ new.count = old.count + 1
                ELSE /\ new.count = 1
                     /\ new.resetTime = now + windowMs
                     /\ lastRes'.client = c
                     /\ lastRes'.status = 0
                     /\ lastRes'.next]_vars

C24_Witness ==
    /\ now = windowMs
    /\ lastRes.client = "ip1"
    /\ lastRes.status = 429
    /\ lastRes.retryAfter = 0
    /\ rateLimitStore["ip1"].resetTime = windowMs
    /\ rateLimitStore["ip1"].count > analysisMaxRequests

\* C25: the sweep removes only entries whose resetTime is before now, and
\* every request after it is answered as in the run without any sweep: the
\* same status, Retry-After and count, and the same entry (which the
\* X-RateLimit headers are computed from) is left in the store.
C25_SweepUnobservable ==
    /\ [](\A c \in Clients :
            \/ rateLimitStore[c] = unswept[c]
            \/ rateLimitStore[c] = NoEntry /\ now > unswept[c].resetTime)
    /\ [](lastRes = unsweptRes)
    /\ [][\A c \in Clients :
            (rateLimitStore'[c] # rateLimitStore[c] /\ rateLimitStore'[c] # NoEntry) =>
                rateLimitStore'[c] = unswept'[c]]_vars

C25_Witness ==
    /\ rateLimitStore["ip2"] = NoEntry
    /\ unswept["ip2"] # NoEntry
    /\ lastRes.client = "ip1"
    /\ lastRes.next
    /\ lastRes.seen = 0
    /\ rateLimitStore["ip1"].resetTime = now + windowMs
    /\ now > windowMs

\* C26: the limiter runs before the handler. Every request to /todos/analyze or
\* /todos/breakdown adds one to its client's counter, the ones answered 400 or 503
\* included, and a request over the ceiling is answered 429 by the limiter, the
\* handler never seeing its body, valid or not.
C26_LimiterFirst ==
    /\ [](pc = "done" =>
            /\ lastRes.route = call.route
            /\ rateLimitStore[lastRes.client].count = lastRes.seen + 1
            /\ http.sent
            /\ http.status \in {400, 503} => lastRes.next
            /\ lastRes.seen >= maxRequests(call.route) =>
                    /\ http.status = 429
                    /\ outcome = NoOutcome
                    /\ fetchCalls = 0)
    /\ [][pc = "idle" /\ pc' = "done" =>
            \E c \in Clients :
                /\ lastRes'.client = c
                /\ rateLimitStore'[c].count =
                       (IF rateLimitStore[c] = NoEntry THEN 0 ELSE rateLimitStore[c].count) + 1
                /\ \A d \in Clients \ {c} : rateLimitStore'[d] = rateLimitStore[d]]_vars

\* the eleventh breakdown request of a window has an empty body and is answered 429
C26_Witness ==
    /\ pc = "done"
    /\ call.route = "breakdown"
    /\ call.input = JObj(<<>>)
    /\ http.status = 429
    /\ lastRes.seen = breakdownMaxRequests
    /\ admitted["ip1"]["breakdown"] = breakdownMaxRequests

\* C27: the validator is idempotent on its own output: for every provider JSON
\* it accepts, validating the data it returned is accepted again and yields
\* the same tasks (titles, descriptions, priorities) and the same reasoning.
C27_ValidatorIdempotent ==
    Returned("breakdown") =>
        LET first == validateLLMResponse(Parsed.val)
            again == validateLLMResponse(first.data)
        IN  /\ first.valid
            /\ again.valid
            /\ again.data = first.data

----------------------------------------------------------------------------
(* Properties of the useTaskBreakdown hook, checked under SpecHook *)

\* where the task at index j of the list after removeTask(i) stood before
Before(j, i) == IF j < i THEN j ELSE j + 1

\* C28: removeTask(i) with 0 <= i < n keeps each task with its state: the
\* list loses the task at i, every remaining task is selected afterwards iff
\* it was selected before and carries exactly the edit it had before, nothing
\* of the removed task's selection or edit is left, and the tasks above i are
\* found one index lower.
C28_RemoveKeepsAssociation ==
    [][op'.name = "removeTask" =>
        LET i == op'.index
            n == Len(suggestions)
        IN  /\ 0 <= i /\ i < n
            /\ Len(suggestions') = n - 1
            /\ selectedTasks' \subseteq 0..(n - 2)
            /\ DOMAIN editedTasks' \subseteq 0..(n - 2)
            /\ \A j \in 0..(n - 2) :
                /\ suggestions'[j + 1] = suggestions[Before(j, i) + 1]
                /\ j \in selectedTasks' <=> Before(j, i) \in selectedTasks
                /\ j \in DOMAIN editedTasks' <=> Before(j, i) \in DOMAIN editedTasks
                /\ j \in DOMAIN editedTasks' => editedTasks'[j] = editedTasks[Before(j, i)]
            /\ Cardinality(selectedTasks') = Cardinality(selectedTasks \ {i})
            /\ Cardinality(DOMAIN editedTasks') = Cardinality(DOMAIN editedTasks \ {i})]_vars

\* the first of two tasks was removed: the second one, selected and edited, is now the first
C28_Witness ==
    /\ op = Ran("removeTask", 0)
    /\ Len(suggestions) = 1
    /\ suggestions[1].title = Titles[2]
    /\ selectedTasks = {0}
    /\ DOMAIN editedTasks = {0}
    /\ editedTasks[0].title = "Book cabin"

\* C29: in every state the hook reaches through generateBreakdown (resolved or
\* rejected), removeTask, updateTask and toggleTaskSelection on indices of the
\* list, selectAll, deselectAll, addSelectedTasks and clearSuggestions, every
\* index in selectedTasks and every key of editedTasks is an index of suggestions.
C29_IndicesValid ==
    /\ selectedTasks \subseteq IndicesOf(suggestions)
    /\ DOMAIN editedTasks \subseteq IndicesOf(suggestions)

\* the task addSelectedTasks takes for a selected index: its edited version when it has one
Chosen(i) == IF i \in DOMAIN editedTasks THEN editedTasks[i] ELSE suggestions[i + 1]

\* a selected task whose title is empty or white space
BlankSelected == \E i \in selectedTasks : Len(Trim(Chosen(i).title)) = 0

\* one createTodo call per selected index, with the title and description of the chosen task
CreatedPerSelected ==
    /\ DOMAIN created = selectedTasks
    /\ \A i \in selectedTasks :
            created[i] = [title |-> Chosen(i).title, description |-> Chosen(i).description]

\* what the two ends of a started addSelectedTasks do
AddFinishes ==
    /\ op'.name = "addSelectedTasks" =>
            /\ UNCHANGED <<suggestions, selectedTasks, editedTasks, reasoning>>
            /\ notified' = 0
    /\ op'.name = "addSelectedTasks.resolved" =>
            /\ adding > 0
            /\ suggestions' = <<>>
            /\ selectedTasks' = {}
            /\ editedTasks' = <<>>
            /\ reasoning' = Undefined
            /\ notified' = 1
            /\ isLoading' = FALSE
    /\ op'.name = "addSelectedTasks.rejected" =>
            /\ adding > 0
            /\ error_'.t = "string"
            /\ UNCHANGED <<suggestions, selectedTasks, editedTasks, reasoning>>
            /\ notified' = 0
            /\ created' = <<>>
            /\ isLoading' = FALSE

\* C30 as stated: addSelectedTasks with an empty selection sets an error and
\* makes no createTodo call; otherwise it makes one createTodo call per selected
\* index, with the edited version of a task when there is one; when all calls
\* succeed it clears suggestions, selection, edits and reasoning and calls
\* onTasksAdded once; when a call fails it sets the error, clears nothing and
\* does not call onTasksAdded; isLoading is false when it finishes.
C30_AddSelected ==
    /\ [](op.name = "addSelectedTasks" =>
            IF selectedTasks = {}
            THEN error_ = JStr("Please select at least one task to add") /\ created = <<>>
            ELSE CreatedPerSelected)
    /\ [][AddFinishes]_vars

\* C30, amended: as stated, except that a non-empty selection holding a task
\* whose title (edited when there is an edit) is empty or white space ends at
\* once with the error 'All tasks must have a title', no createTodo call,
\* nothing cleared, no onTasksAdded call, and isLoading false.
C30_AddSelectedValidated ==
    /\ [](op.name = "addSelectedTasks" =>
            IF selectedTasks = {}
            THEN error_ = JStr("Please select at least one task to add") /\ created = <<>>
            ELSE IF BlankSelected
            THEN /\ error_ = JStr("All tasks must have a title")
                 /\ created = <<>>
                 /\ isLoading = FALSE
            ELSE /\ CreatedPerSelected
                 /\ error_ = JNull
                 /\ adding > 0)
    /\ [][AddFinishes]_vars

\* addSelectedTasks was called with two tasks selected, one of them edited, and made
\* its two createTodo calls, one with the edited title
C30_Witness ==
    /\ op.name = "addSelectedTasks"
    /\ Cardinality(selectedTasks) = 2
    /\ DOMAIN created = selectedTasks
    /\ \E i \in selectedTasks :
            /\ i \in DOMAIN editedTasks
            /\ created[i].title = "Book cabin"
            /\ suggestions[i + 1].title # "Book cabin"
    /\ \E i \in selectedTasks : i \notin DOMAIN editedTasks

====
